---- MODULE Spec2Model ----
(***************************************************************************)
(* White Goods CMS API (src/main.py): product CRUD, the settings singleton *)
(* and the contact intake, as request handlers run by concurrent callers   *)
(* against a document store.  A handler that issues several store calls is *)
(* several steps; other callers may act between them.                      *)
(***************************************************************************)
EXTENDS Integers, Sequences, FiniteSets, TLC

\* ------------------------------------------------------------------ bounds
\* Number of documents the store assigns identifiers to in the product collection.
MaxIds == 2
\* Number of documents the settings collection may grow to.
MaxSettingsDocs == 2
\* Number of contact messages the store accepts.
MaxMessages == 2

\* Concurrent callers.
Procs == {"c1", "c2"}

\* Python's None: an absent header, an unset environment variable, an
\* omitted optional field, a find_one that matched nothing.
None == "None"

\* ------------------------------------------------------- identifier codec
\* Length of the textual form of an ObjectId (bson), in hex digits.
OidLen == 24

HexDigits == <<"0", "1", "2", "3", "4", "5", "6", "7", "8", "9", "a", "b", "c", "d", "e", "f">>

UpperHexDigits == <<"0", "1", "2", "3", "4", "5", "6", "7", "8", "9", "A", "B", "C", "D", "E", "F">>

IsHex(c) == \E i \in 1..16 : HexDigits[i] = c \/ UpperHexDigits[i] = c

HexVal(c) == (CHOOSE i \in 1..16 : HexDigits[i] = c \/ UpperHexDigits[i] = c) - 1

\* ObjectId.is_valid(text) for a str: 24 characters, all hex digits.
is_valid(text) == Len(text) = OidLen /\ \A i \in 1..OidLen : IsHex(text[i])

\* ObjectId(text): the identifier's nibbles, upper and lower case alike.
ObjectId(text) == [i \in 1..OidLen |-> HexVal(text[i])]

\* str(oid): the lower-case hex text of an ObjectId.
str(oid) == [i \in 1..OidLen |-> HexDigits[oid[i] + 1]]

\* The n-th identifier the store assigns (never one it assigned before).
NewObjectId(n) == [i \in 1..OidLen |-> IF i = OidLen THEN 9 + n ELSE 0]

\* A path text of full length ending in character c.
Pad(c) == [i \in 1..OidLen |-> IF i = OidLen THEN c ELSE "0"]

\* Path identifiers callers send: stored ones in either case, a well-formed
\* one the store never assigns, a non-hex one and one of the wrong length.
IdTexts == {Pad("a"), Pad("B"), Pad("f"), Pad("g"), <<"0", "a">>}

\* --------------------------------------------------------------- admin gate
\* X-Admin-Token header values callers send (None: header absent).
Tokens == {None, "", "s3cret", "wrong"}

\* Values of the ADMIN_TOKEN environment variable.
AdminEnvs == {None, "", "s3cret"}

VARIABLES
    adminEnv,       \* os.getenv("ADMIN_TOKEN")
    product,        \* db["product"]: sequence of documents in store order
    nextOid,        \* how many identifiers the store has assigned to products
    sitesettings,   \* db["sitesettings"]: sequence of documents
    putApplied,     \* a PUT /api/settings has written to the store
    contactmessage, \* db["contactmessage"]: sequence of documents
    smtpEnv,        \* SMTP_HOST, SMTP_PORT, SMTP_USER, SMTP_PASS, CONTACT_TO_EMAIL
    pc,             \* each caller's position in its handler
    req,            \* each caller's request in flight
    loc,            \* each caller's handler locals
    resp            \* each caller's response

vars == <<adminEnv, product, nextOid, sitesettings, putApplied, contactmessage,
          smtpEnv, pc, req, loc, resp>>

\* Variant of the gate that tests "admin_token is None" instead of
\* "not admin_token": an empty secret is then matched by an empty token.
GateMissingOnly(x_admin_token) ==
    IF adminEnv = None THEN 500
    ELSE IF x_admin_token # adminEnv THEN 401
    ELSE 200

\* admin_token_required: 500 when the secret is unset or empty, 401 on a
\* mismatch, 200 (True) otherwise.  A dependency's HTTPException ends the
\* request before the body is validated and before the handler runs.
admin_token_required(x_admin_token) ==
    IF adminEnv = None \/ adminEnv = "" THEN 500
    ELSE IF x_admin_token # adminEnv THEN 401
    ELSE 200

GateDetail(status) ==
    IF status = 500 THEN "ADMIN_TOKEN not configured on server" ELSE "Invalid admin token"

\* ------------------------------------------------------------ schemas
\* A request body field, or the schema's default when the body omits it.
Field(body, f, default) == IF f \in DOMAIN body THEN body[f] ELSE default

\* Product bodies callers send: optional fields omitted, every field given,
\* a negative price, a missing required field.
ProductBodies ==
    { [name |-> "Fridge X", brand |-> "Acme", price |-> 499],
      [name |-> "Washer W", brand |-> "Bolt", description |-> "quiet", price |-> 0,
       image_url |-> "w.png", category |-> "laundry", in_stock |-> FALSE,
       features |-> <<"eco">>],
      [name |-> "Oven O", brand |-> "Acme", price |-> -1],
      [brand |-> "Acme", price |-> 20] }

\* Variant of the validation without Field(ge=0) on price.
ProductCreateNoPriceCheck(body) == {"name", "brand", "price"} \subseteq DOMAIN body

\* ProductCreate validation: name, brand and price required, price >= 0.
ProductCreateValid(body) ==
    /\ {"name", "brand", "price"} \subseteq DOMAIN body
    /\ body.price >= 0

\* Variant of the dump with in_stock defaulting to False.
ProductDumpStockDefaultFalse(body) ==
    [ name |-> body.name,
      brand |-> body.brand,
      description |-> Field(body, "description", None),
      price |-> body.price,
      image_url |-> Field(body, "image_url", None),
      category |-> Field(body, "category", None),
      in_stock |-> Field(body, "in_stock", FALSE),
      features |-> Field(body, "features", <<>>) ]

\* ProductCreate(...).model_dump(): every field of the shape, defaults filled in.
ProductDump(body) ==
    [ name |-> body.name,
      brand |-> body.brand,
      description |-> Field(body, "description", None),
      price |-> body.price,
      image_url |-> Field(body, "image_url", None),
      category |-> Field(body, "category", None),
      in_stock |-> Field(body, "in_stock", TRUE),
      features |-> Field(body, "features", <<>>) ]

ProductFields == {"name", "brand", "description", "price", "image_url", "category",
                  "in_stock", "features"}

\* The creation/update shape of a stored document or of a returned Product.
Shape(d) == [f \in ProductFields |-> d[f]]

\* Product(**d): the shape's fields plus the textual identifier.
Product(fields, id) ==
    [ id |-> id,
      name |-> fields.name,
      brand |-> fields.brand,
      description |-> fields.description,
      price |-> fields.price,
      image_url |-> fields.image_url,
      category |-> fields.category,
      in_stock |-> fields.in_stock,
      features |-> fields.features ]

\* ------------------------------------------------------ document store
\* The stored form of a dumped model: its fields under the identifier oid.
Document(dump, oid) ==
    [f \in DOMAIN dump \cup {"_id"} |-> IF f = "_id" THEN oid ELSE dump[f]]

\* create_document(collection, data): the document appended under a new
\* identifier.
create_document(coll, dump, oid) == Append(coll, Document(dump, oid))

\* get_documents(collection): every document, in store order.
get_documents(coll) == coll

\* Positions of the documents of coll whose _id is oid.
Matching(coll, oid) == {i \in 1..Len(coll) : coll[i]._id = oid}

\* The position of the first document of coll whose _id is oid.
First(coll, oid) == CHOOSE i \in Matching(coll, oid) : \A j \in Matching(coll, oid) : i <= j

\* find_one({"_id": oid}): the first matching document, or None.
find_one(coll, oid) ==
    IF Matching(coll, oid) = {} THEN None
    ELSE coll[First(coll, oid)]

\* Variant of the update that dumps with exclude_none: an omitted optional
\* text keeps its stored value.
SetKeepsNoneFields(d, dump) ==
    [ _id |-> d._id,
      name |-> dump.name,
      brand |-> dump.brand,
      description |-> IF dump.description = None THEN d.description ELSE dump.description,
      price |-> dump.price,
      image_url |-> IF dump.image_url = None THEN d.image_url ELSE dump.image_url,
      category |-> IF dump.category = None THEN d.category ELSE dump.category,
      in_stock |-> dump.in_stock,
      features |-> dump.features ]

\* {"$set": dump} on one document: the dumped fields overwritten, every
\* other field (_id among them) kept.
SetFields(d, dump) == [f \in DOMAIN d |-> IF f \in DOMAIN dump THEN dump[f] ELSE d[f]]

\* Variant of update_one called with upsert=True: no match inserts a document.
UpdateOneUpsert(coll, oid, dump) ==
    IF Matching(coll, oid) = {}
    THEN [coll |-> Append(coll, Document(dump, oid)), matched_count |-> 0]
    ELSE [coll |-> [coll EXCEPT ![First(coll, oid)] = SetFields(@, dump)],
          matched_count |-> 1]

\* update_one({"_id": oid}, {"$set": dump}): the first match rewritten, and
\* the result's matched_count.
update_one(coll, oid, dump) ==
    IF Matching(coll, oid) = {}
    THEN [coll |-> coll, matched_count |-> 0]
    ELSE [coll |-> [coll EXCEPT ![First(coll, oid)] = SetFields(@, dump)],
          matched_count |-> 1]

\* delete_one({"_id": oid}): the first match removed, the order of the rest
\* kept, and the result's deleted_count.
delete_one(coll, oid) ==
    IF Matching(coll, oid) = {}
    THEN [coll |-> coll, deleted_count |-> 0]
    ELSE [coll |-> [i \in 1..(Len(coll) - 1) |->
                      IF i < First(coll, oid) THEN coll[i] ELSE coll[i + 1]],
          deleted_count |-> 1]

\* get_documents("product") followed by list_products' mapping to Product.
list_products_result ==
    LET docs == get_documents(product)
    IN  [i \in 1..Len(docs) |-> Product(docs[i], str(docs[i]._id))]

Ids(coll) == {coll[i]._id : i \in 1..Len(coll)}

\* ------------------------------------------------------------ responses
NoReq == [op |-> "none"]
NoResp == [status |-> 0]
NoLoc == [calls |-> 0]

Fail(status, detail) == [status |-> status, detail |-> detail]
Ok(body) == [status |-> 200, body |-> body]

\* A handler finishes in one step: the response is set and no store call remains.
Finish(p, request, response, calls) ==
    /\ pc' = [pc EXCEPT ![p] = "done"]
    /\ req' = [req EXCEPT ![p] = request]
    /\ resp' = [resp EXCEPT ![p] = response]
    /\ loc' = [loc EXCEPT ![p] = [calls |-> calls]]

OtherStores == <<adminEnv, sitesettings, putApplied, contactmessage, smtpEnv>>

\* ------------------------------------------------------------- products
\* GET /api/products
list_products(p) ==
    /\ pc[p] = "idle"
    /\ Finish(p, [op |-> "list"], Ok(list_products_result), 1)
    /\ UNCHANGED <<product, nextOid, OtherStores>>


\* POST /api/products
create_product(p) ==
    /\ pc[p] = "idle"
    /\ \E token \in Tokens, body \in ProductBodies :
        LET request == [op |-> "create", token |-> token, body |-> body]
            gate == admin_token_required(token)
        IN  IF gate # 200
            THEN /\ Finish(p, request, Fail(gate, GateDetail(gate)), 0)
                 /\ UNCHANGED <<product, nextOid>>
            ELSE IF ~ProductCreateValid(body)
            THEN /\ Finish(p, request, Fail(422, "validation error"), 0)
                 /\ UNCHANGED <<product, nextOid>>
            ELSE /\ nextOid < MaxIds
                 /\ LET doc == ProductDump(body)
                        oid == NewObjectId(nextOid + 1)
                    IN  /\ product' = create_document(product, doc, oid)
                        /\ nextOid' = nextOid + 1
                        /\ Finish(p, request, Ok(Product(doc, str(oid))), 1)
    /\ UNCHANGED OtherStores

\* PUT /api/products/{product_id}, up to and including update_one.
update_product(p) ==
    /\ pc[p] = "idle"
    /\ \E token \in Tokens, text \in IdTexts, body \in ProductBodies :
        LET request == [op |-> "update", token |-> token, text |-> text, body |-> body]
            gate == admin_token_required(token)
        IN  IF gate # 200
            THEN /\ Finish(p, request, Fail(gate, GateDetail(gate)), 0)
                 /\ UNCHANGED product
            ELSE IF ~ProductCreateValid(body)
            THEN /\ Finish(p, request, Fail(422, "validation error"), 0)
                 /\ UNCHANGED product
            ELSE IF ~is_valid(text)
            THEN /\ Finish(p, request, Fail(400, "Invalid product id"), 0)
                 /\ UNCHANGED product
            ELSE LET res == update_one(product, ObjectId(text), ProductDump(body))
                 IN  /\ product' = res.coll
                     /\ IF res.matched_count = 0
                        THEN Finish(p, request, Fail(404, "Product not found"), 1)
                        ELSE /\ pc' = [pc EXCEPT ![p] = "update_reread"]
                             /\ req' = [req EXCEPT ![p] = request]
                             /\ loc' = [loc EXCEPT ![p] = [calls |-> 1]]
                             /\ UNCHANGED resp
    /\ UNCHANGED <<nextOid, OtherStores>>

\* update_product's re-read: find_one, then updated.pop("_id") and Product(**updated).
\* On None the pop raises and the call ends in an unhandled failure.
update_product_reread(p) ==
    /\ pc[p] = "update_reread"
    /\ LET oid == ObjectId(req[p].text)
           updated == find_one(product, oid)
       IN  resp' = [resp EXCEPT ![p] =
                      IF Matching(product, oid) = {}
                      THEN Fail(500, "Internal Server Error")
                      ELSE Ok(Product(updated, str(updated._id)))]
    /\ pc' = [pc EXCEPT ![p] = "done"]
    /\ loc' = [loc EXCEPT ![p] = [calls |-> 2]]
    /\ UNCHANGED <<req, product, nextOid, OtherStores>>

\* DELETE /api/products/{product_id}
delete_product(p) ==
    /\ pc[p] = "idle"
    /\ \E token \in Tokens, text \in IdTexts :
        LET request == [op |-> "delete", token |-> token, text |-> text]
            gate == admin_token_required(token)
        IN  IF gate # 200
            THEN /\ Finish(p, request, Fail(gate, GateDetail(gate)), 0)
                 /\ UNCHANGED product
            ELSE IF ~is_valid(text)
            THEN /\ Finish(p, request, Fail(400, "Invalid product id"), 0)
                 /\ UNCHANGED product
            ELSE LET res == delete_one(product, ObjectId(text))
                 IN  /\ product' = res.coll
                     /\ IF res.deleted_count = 0
                        THEN Finish(p, request, Fail(404, "Product not found"), 1)
                        ELSE Finish(p, request, Ok([success |-> TRUE]), 1)
    /\ UNCHANGED <<nextOid, OtherStores>>

\* The response is sent; the caller may issue its next request.
respond(p) ==
    /\ pc[p] = "done"
    /\ pc' = [pc EXCEPT ![p] = "idle"]
    /\ req' = [req EXCEPT ![p] = NoReq]
    /\ resp' = [resp EXCEPT ![p] = NoResp]
    /\ loc' = [loc EXCEPT ![p] = NoLoc]
    /\ UNCHANGED <<product, nextOid, OtherStores>>

\* ------------------------------------------------------------- settings
\* Addresses EmailStr accepts among those callers send.
ValidEmails == {"shop@example.com", "ann@example.com"}

\* Settings bodies callers send: every field omitted, some fields given, a
\* malformed contact_email.
SettingsBodies ==
    { [x \in {} |-> None],
      [hero_title |-> "Spring Sale", contact_email |-> "shop@example.com"],
      [contact_email |-> "not-an-email"] }

\* SiteSettings validation: contact_email, when present, is an email address.
SiteSettingsValid(body) ==
    \/ "contact_email" \notin DOMAIN body
    \/ body.contact_email = None
    \/ body.contact_email \in ValidEmails

\* Variant of the settings model with another default hero_title.
SiteSettingsOtherTitle(body) ==
    [ hero_title |-> Field(body, "hero_title", "White Goods"),
      hero_subtitle |-> Field(body, "hero_subtitle", "Reliable appliances for every home."),
      contact_email |-> Field(body, "contact_email", None),
      phone |-> Field(body, "phone", None),
      address |-> Field(body, "address", None) ]

\* SiteSettings(...).model_dump(): the five fields, defaults filled in.
SiteSettings(body) ==
    [ hero_title |-> Field(body, "hero_title", "Premium White Goods"),
      hero_subtitle |-> Field(body, "hero_subtitle", "Reliable appliances for every home."),
      contact_email |-> Field(body, "contact_email", None),
      phone |-> Field(body, "phone", None),
      address |-> Field(body, "address", None) ]

\* doc.pop("_id"); SiteSettings(**doc)
SettingsOf(doc) ==
    [ hero_title |-> doc.hero_title,
      hero_subtitle |-> doc.hero_subtitle,
      contact_email |-> doc.contact_email,
      phone |-> doc.phone,
      address |-> doc.address ]


ProductStores == <<adminEnv, product, nextOid, contactmessage, smtpEnv>>

\* GET /api/settings: find_one({}), and the return when a document exists.
get_settings(p) ==
    /\ pc[p] = "idle"
    /\ req' = [req EXCEPT ![p] = [op |-> "get_settings"]]
    /\ IF Len(sitesettings) = 0
       THEN /\ pc' = [pc EXCEPT ![p] = "settings_seed"]
            /\ loc' = [loc EXCEPT ![p] = [calls |-> 1, found |-> FALSE]]
            /\ UNCHANGED resp
       ELSE /\ pc' = [pc EXCEPT ![p] = "done"]
            /\ loc' = [loc EXCEPT ![p] = [calls |-> 1, found |-> TRUE]]
            /\ resp' = [resp EXCEPT ![p] = Ok(SettingsOf(sitesettings[1]))]
    /\ UNCHANGED <<sitesettings, putApplied, ProductStores>>

\* get_settings when find_one gave None: the defaults are stored and returned.
get_settings_seed(p) ==
    /\ pc[p] = "settings_seed"
    /\ Len(sitesettings) < MaxSettingsDocs
    /\ LET default == SiteSettings([x \in {} |-> None])
       IN  /\ sitesettings' = create_document(sitesettings, default,
                                              NewObjectId(Len(sitesettings) + 1))
           /\ resp' = [resp EXCEPT ![p] = Ok(default)]
    /\ pc' = [pc EXCEPT ![p] = "done"]
    /\ loc' = [loc EXCEPT ![p] = [calls |-> 2, found |-> FALSE]]
    /\ UNCHANGED <<req, putApplied, ProductStores>>

\* PUT /api/settings, up to and including find_one({}).
update_settings(p) ==
    /\ pc[p] = "idle"
    /\ \E token \in Tokens, body \in SettingsBodies :
        LET request == [op |-> "put_settings", token |-> token, body |-> body]
            gate == admin_token_required(token)
        IN  IF gate # 200
            THEN Finish(p, request, Fail(gate, GateDetail(gate)), 0)
            ELSE IF ~SiteSettingsValid(body)
            THEN Finish(p, request, Fail(422, "validation error"), 0)
            ELSE /\ req' = [req EXCEPT ![p] = request]
                 /\ UNCHANGED resp
                 /\ IF Len(sitesettings) = 0
                    THEN /\ pc' = [pc EXCEPT ![p] = "settings_create"]
                         /\ loc' = [loc EXCEPT ![p] = [calls |-> 1, found |-> FALSE]]
                    ELSE /\ pc' = [pc EXCEPT ![p] = "settings_update"]
                         /\ loc' = [loc EXCEPT ![p] =
                                [calls |-> 1, found |-> TRUE, existing |-> sitesettings[1]._id]]
    /\ UNCHANGED <<sitesettings, putApplied, ProductStores>>

\* update_settings when find_one gave None: the payload is stored as a new document.
update_settings_create(p) ==
    /\ pc[p] = "settings_create"
    /\ Len(sitesettings) < MaxSettingsDocs
    /\ sitesettings' = create_document(sitesettings, SiteSettings(req[p].body),
                                       NewObjectId(Len(sitesettings) + 1))
    /\ putApplied' = TRUE
    /\ resp' = [resp EXCEPT ![p] = Ok(SiteSettings(req[p].body))]
    /\ pc' = [pc EXCEPT ![p] = "done"]
    /\ loc' = [loc EXCEPT ![p] = [calls |-> 2, found |-> FALSE]]
    /\ UNCHANGED <<req, ProductStores>>

\* update_settings when a document exists: its fields are overwritten in place.
update_settings_set(p) ==
    /\ pc[p] = "settings_update"
    /\ sitesettings' = update_one(sitesettings, loc[p].existing, SiteSettings(req[p].body)).coll
    /\ putApplied' = TRUE
    /\ resp' = [resp EXCEPT ![p] = Ok(SiteSettings(req[p].body))]
    /\ pc' = [pc EXCEPT ![p] = "done"]
    /\ loc' = [loc EXCEPT ![p] = [calls |-> 2, found |-> TRUE]]
    /\ UNCHANGED <<req, ProductStores>>

\* -------------------------------------------------------------- contact
\* Contact bodies callers send: a valid one and one with a malformed email.
ContactBodies ==
    { [name |-> "Ann", email |-> "ann@example.com", message |-> "Hello"],
      [name |-> "Bob", email |-> "not-an-email", message |-> "Hi"] }

\* ContactMessageIn validation.
ContactMessageInValid(body) == body.email \in ValidEmails

\* Decimal texts int() parses, with their values; int() raises on any other text.
IntTexts == ("587" :> 587) @@ ("2525" :> 2525)

\* A Python value is truthy: neither None nor the empty string.
Truthy(v) == v # None /\ v # ""

\* os.getenv(name, default)
getenv(v, default) == IF v = None THEN default ELSE v

\* CONTACT_TO_EMAIL or SMTP_USER
to_email == IF Truthy(smtpEnv.to) THEN smtpEnv.to ELSE smtpEnv.user

\* The mail relay is configured: smtp_host and to_email.
RelayConfigured == Truthy(smtpEnv.host) /\ Truthy(to_email)

ContactStores == <<adminEnv, product, nextOid, sitesettings, putApplied, smtpEnv>>

ContactReply(sent, error) == Ok([stored |-> TRUE, email_sent |-> sent, error |-> error])

\* Variant in which the exception leaves the handler uncaught.
CaughtPropagates(p, error) ==
    /\ resp' = [resp EXCEPT ![p] = Fail(500, "Internal Server Error")]
    /\ pc' = [pc EXCEPT ![p] = "done"]

\* An exception raised inside the try block: caught, reported in the reply.
Caught(p, error) ==
    /\ resp' = [resp EXCEPT ![p] = ContactReply(FALSE, error)]
    /\ pc' = [pc EXCEPT ![p] = "done"]

\* POST /api/contact: create_document, then the environment is read.  The
\* store may refuse the insert; int() raises on a port that is no number.
send_contact_message(p) ==
    /\ pc[p] = "idle"
    /\ \E body \in ContactBodies, inserted \in BOOLEAN :
        LET request == [op |-> "contact", body |-> body]
        IN  /\ req' = [req EXCEPT ![p] = request]
            /\ IF ~ContactMessageInValid(body)
               THEN /\ resp' = [resp EXCEPT ![p] = Fail(422, "validation error")]
                    /\ pc' = [pc EXCEPT ![p] = "done"]
                    /\ loc' = [loc EXCEPT ![p] =
                           [calls |-> 0, inserted |-> FALSE, connects |-> 0]]
                    /\ UNCHANGED contactmessage
               ELSE IF ~inserted
               THEN /\ resp' = [resp EXCEPT ![p] = Fail(500, "Internal Server Error")]
                    /\ pc' = [pc EXCEPT ![p] = "done"]
                    /\ loc' = [loc EXCEPT ![p] =
                           [calls |-> 1, inserted |-> FALSE, connects |-> 0]]
                    /\ UNCHANGED contactmessage
               ELSE /\ Len(contactmessage) < MaxMessages
                    /\ contactmessage' = create_document(contactmessage, body,
                                                        NewObjectId(Len(contactmessage) + 1))
                    /\ loc' = [loc EXCEPT ![p] =
                           [calls |-> 1, inserted |-> TRUE, connects |-> 0]]
                    /\ IF getenv(smtpEnv.port, "587") \notin DOMAIN IntTexts
                       THEN /\ resp' = [resp EXCEPT ![p] = Fail(500, "Internal Server Error")]
                            /\ pc' = [pc EXCEPT ![p] = "done"]
                       ELSE IF RelayConfigured
                       THEN /\ pc' = [pc EXCEPT ![p] = "smtp_connect"]
                            /\ UNCHANGED resp
                       ELSE /\ resp' = [resp EXCEPT ![p] =
                                   ContactReply(FALSE, "SMTP not configured on server")]
                            /\ pc' = [pc EXCEPT ![p] = "done"]
    /\ UNCHANGED ContactStores

\* smtplib.SMTP(smtp_host, smtp_port, timeout=10)
smtp_connect(p) ==
    /\ pc[p] = "smtp_connect"
    /\ loc' = [loc EXCEPT ![p].connects = @ + 1]
    /\ \E ok \in BOOLEAN :
        IF ok
        THEN /\ pc' = [pc EXCEPT ![p] = "smtp_starttls"]
             /\ UNCHANGED resp
        ELSE Caught(p, "connection refused")
    /\ UNCHANGED <<req, contactmessage, ContactStores>>

\* server.starttls()
smtp_starttls(p) ==
    /\ pc[p] = "smtp_starttls"
    /\ \E ok \in BOOLEAN :
        IF ok
        THEN /\ pc' = [pc EXCEPT ![p] =
                        IF Truthy(smtpEnv.user) /\ Truthy(smtpEnv.pass)
                        THEN "smtp_login" ELSE "smtp_send"]
             /\ UNCHANGED resp
        ELSE Caught(p, "STARTTLS extension not supported by server")
    /\ UNCHANGED <<req, loc, contactmessage, ContactStores>>

\* server.login(smtp_user, smtp_pass)
smtp_login(p) ==
    /\ pc[p] = "smtp_login"
    /\ \E ok \in BOOLEAN :
        IF ok
        THEN /\ pc' = [pc EXCEPT ![p] = "smtp_send"]
             /\ UNCHANGED resp
        ELSE Caught(p, "authentication failed")
    /\ UNCHANGED <<req, loc, contactmessage, ContactStores>>

\* server.send_message(msg); sent = True
smtp_send(p) ==
    /\ pc[p] = "smtp_send"
    /\ \E ok \in BOOLEAN :
        IF ok
        THEN /\ resp' = [resp EXCEPT ![p] = ContactReply(TRUE, None)]
             /\ pc' = [pc EXCEPT ![p] = "done"]
        ELSE Caught(p, "recipient refused")
    /\ UNCHANGED <<req, loc, contactmessage, ContactStores>>

\* ------------------------------------------------------ specifications
\* Values of the mail environment variables.
SmtpEnvs ==
    [ host : {None, "", "smtp.example.com"},
      port : {None, "", "2525"},
      user : {None, "mailer@example.com"},
      pass : {None, "pw"},
      to : {None, "owner@example.com"} ]

NoSmtp == [host |-> None, port |-> None, user |-> None, pass |-> None, to |-> None]

\* Empty collections, no request in flight, the environment as deployed.
Start(admins, smtps) ==
    /\ adminEnv \in admins
    /\ smtpEnv \in smtps
    /\ product = <<>>
    /\ nextOid = 0
    /\ sitesettings = <<>>
    /\ putApplied = FALSE
    /\ contactmessage = <<>>
    /\ pc = [p \in Procs |-> "idle"]
    /\ req = [p \in Procs |-> NoReq]
    /\ loc = [p \in Procs |-> NoLoc]
    /\ resp = [p \in Procs |-> NoResp]

\* Every value of ADMIN_TOKEN; the mail relay plays no part.
InitAdmin == Start(AdminEnvs, {NoSmtp})

\* Every mail configuration; the admin secret plays no part.
InitContact == Start({None}, SmtpEnvs)

\* Callers with no request in flight other than p.
Solo(p) == \A q \in Procs \ {p} : pc[q] = "idle"

ProductNext ==
    \E p \in Procs :
        \/ list_products(p)
        \/ create_product(p)
        \/ update_product(p)
        \/ update_product_reread(p)
        \/ delete_product(p)
        \/ respond(p)

\* Product requests of concurrent callers, interleaved at store calls.
SpecProducts ==
    InitAdmin /\ [][ProductNext]_vars

ProductSeqNext ==
    \E p \in Procs :
        \/ Solo(p) /\ list_products(p)
        \/ Solo(p) /\ create_product(p)
        \/ Solo(p) /\ update_product(p)
        \/ Solo(p) /\ update_product_reread(p)
        \/ Solo(p) /\ delete_product(p)
        \/ Solo(p) /\ respond(p)

\* Product requests handled one at a time.
SpecProductsSeq ==
    InitAdmin /\ [][ProductSeqNext]_vars

SettingsNext ==
    \E p \in Procs :
        \/ get_settings(p)
        \/ get_settings_seed(p)
        \/ update_settings(p)
        \/ update_settings_create(p)
        \/ update_settings_set(p)
        \/ respond(p)

\* Settings requests of concurrent callers, interleaved at store calls.
SpecSettings ==
    InitAdmin /\ [][SettingsNext]_vars

AdminNext ==
    \E p \in Procs :
        \/ Solo(p) /\ create_product(p)
        \/ Solo(p) /\ update_product(p)
        \/ Solo(p) /\ update_product_reread(p)
        \/ Solo(p) /\ delete_product(p)
        \/ Solo(p) /\ update_settings(p)
        \/ Solo(p) /\ update_settings_create(p)
        \/ Solo(p) /\ update_settings_set(p)
        \/ Solo(p) /\ respond(p)

\* The mutating requests of products and settings, handled one at a time.
SpecAdmin ==
    InitAdmin /\ [][AdminNext]_vars

ContactNext ==
    \E p \in Procs :
        \/ send_contact_message(p)
        \/ smtp_connect(p)
        \/ smtp_starttls(p)
        \/ smtp_login(p)
        \/ smtp_send(p)
        \/ respond(p)

\* Contact requests of concurrent callers under every mail configuration.
SpecContact ==
    InitContact /\ [][ContactNext]_vars

\* ================================================================ claims
HexChars == {HexDigits[i] : i \in 1..16} \cup {UpperHexDigits[i] : i \in 1..16}

\* A path text that is no 24-digit hex text.
Malformed(text) == Len(text) # 24 \/ \E i \in 1..Len(text) : text[i] \notin HexChars

\* The server secret is set and the supplied token equals it.
Authorized(token) == adminEnv # None /\ adminEnv # "" /\ token = adminEnv

\* Caller p starts a request of one of the kinds ops in this step.
Starts(p, ops) == pc[p] = "idle" /\ pc'[p] # "idle" /\ req'[p].op \in ops

\* Caller p's request ends in this step, refused with status, before any
\* store call and with both admin-guarded collections as they were.
Refused(p, status) ==
    /\ pc'[p] = "done"
    /\ resp'[p].status = status
    /\ loc'[p].calls = 0
    /\ product' = product
    /\ sitesettings' = sitesettings

\* C1: every mutating request (create, update, delete product, put settings),
\* whatever token it carries, is refused with 500 when ADMIN_TOKEN is unset or
\* empty and with 401 when it is set and the token differs; the handler body
\* does not run and the product and settings collections are unchanged.
C1_AdminGateFailsClosed ==
    [][\A p \in Procs :
        Starts(p, {"create", "update", "delete", "put_settings"}) =>
            /\ (adminEnv = None \/ adminEnv = "") => Refused(p, 500)
            /\ (adminEnv # None /\ adminEnv # "" /\ req'[p].token # adminEnv)
                  => Refused(p, 401)]_vars

\* An empty secret met by an empty token: refused as misconfigured.
C1_Witness ==
    \E p \in Procs :
        /\ pc[p] = "done"
        /\ req[p].op = "put_settings"
        /\ adminEnv = ""
        /\ req[p].token = ""
        /\ resp[p].status = 500
        /\ loc[p].calls = 0

\* C2: an authorized, well-shaped Update or Delete with a malformed identifier
\* ends with 400 before any store call, and with a well-formed identifier that
\* no stored product has ends with 404; the product collection is unchanged.
C2_IdentifierErrorsLeaveStore ==
    [][\A p \in Procs :
        ( /\ Starts(p, {"update", "delete"})
          /\ Authorized(req'[p].token)
          /\ req'[p].op = "update" => ProductCreateValid(req'[p].body) ) =>
            /\ Malformed(req'[p].text) =>
                  /\ pc'[p] = "done"
                  /\ resp'[p] = Fail(400, "Invalid product id")
                  /\ loc'[p].calls = 0
                  /\ product' = product
            /\ (~Malformed(req'[p].text) /\ ObjectId(req'[p].text) \notin Ids(product)) =>
                  /\ pc'[p] = "done"
                  /\ resp'[p] = Fail(404, "Product not found")
                  /\ product' = product]_vars

\* One caller was answered 400 and another 404 while products are stored.
C2_Witness ==
    \E p, q \in Procs :
        /\ pc[p] = "done" /\ req[p].op = "delete" /\ resp[p].status = 400
        /\ pc[q] = "done" /\ req[q].op = "update" /\ resp[q].status = 404
        /\ Authorized(req[p].token) /\ Authorized(req[q].token)
        /\ Len(product) = 2

\* C3: the settings collection holds at most one document, under every
\* interleaving of GET and PUT /api/settings.
C3_AtMostOneSettingsDocument == Len(sitesettings) <= 1

SmtpSteps == {"smtp_connect", "smtp_starttls", "smtp_login", "smtp_send"}

\* C4: the contact message is inserted before any notification step; a failed
\* insert fails the request with no mail connection attempted; after the
\* insert, a failure of connect, STARTTLS, login or send is caught and the
\* request returns stored = true; the call adds exactly one document.
C4_StoreThenBestEffortMail ==
    /\ [](\A p \in Procs :
            /\ pc[p] \in SmtpSteps => loc[p].inserted
            /\ (pc[p] = "done" /\ req[p].op = "contact") =>
                  /\ ~loc[p].inserted => (resp[p].status # 200 /\ loc[p].connects = 0)
                  /\ loc[p].connects > 0 =>
                        /\ loc[p].inserted
                        /\ resp[p].status = 200
                        /\ resp[p].body.stored = TRUE)
    /\ [][\A p \in Procs :
            /\ (Starts(p, {"contact"}) /\ loc'[p].inserted) =>
                  /\ Len(contactmessage') = Len(contactmessage) + 1
                  /\ [f \in {"name", "email", "message"} |->
                         contactmessage'[Len(contactmessage')][f]] = req'[p].body
            /\ (Starts(p, {"contact"}) /\ ~loc'[p].inserted) =>
                  contactmessage' = contactmessage
            /\ (pc[p] \in SmtpSteps /\ pc'[p] # pc[p]) =>
                  contactmessage' = contactmessage]_vars

\* A call whose login was refused by the relay has answered stored = true.
C4_Witness ==
    \E p \in Procs :
        /\ pc[p] = "done"
        /\ req[p].op = "contact"
        /\ loc[p].connects = 1
        /\ resp[p].status = 200
        /\ resp[p].body.email_sent = FALSE
        /\ resp[p].body.error = "authentication failed"

C5_Defaults ==
    [ hero_title |-> "Premium White Goods",
      hero_subtitle |-> "Reliable appliances for every home.",
      contact_email |-> None,
      phone |-> None,
      address |-> None ]

\* C5: GET /api/settings on an empty settings collection returns the defaults
\* and stores a document holding them; while no PUT has written, every GET
\* returns the same defaults, and a GET that finds a document adds none.
C5_DefaultsMaterializedOnce ==
    /\ [](~putApplied =>
            \A p \in Procs :
                (pc[p] = "done" /\ req[p].op = "get_settings") =>
                    /\ resp[p] = Ok(C5_Defaults)
                    /\ Len(sitesettings) >= 1
                    /\ \A i \in 1..Len(sitesettings) :
                          SettingsOf(sitesettings[i]) = C5_Defaults)
    /\ [][\A p \in Procs :
            /\ (Starts(p, {"get_settings"}) /\ Len(sitesettings) > 0) =>
                  /\ pc'[p] = "done"
                  /\ sitesettings' = sitesettings
            /\ (Starts(p, {"get_settings"}) /\ Len(sitesettings) = 0) =>
                  /\ pc'[p] = "settings_seed"
                  /\ sitesettings' = sitesettings
            /\ (pc[p] = "settings_seed" /\ pc'[p] = "done") =>
                  /\ resp'[p] = Ok(C5_Defaults)
                  /\ Len(sitesettings') = Len(sitesettings) + 1
                  /\ SettingsOf(sitesettings'[Len(sitesettings')]) = C5_Defaults]_vars

\* A later GET found the seeded document and returned it.
C5_Witness ==
    \E p \in Procs :
        /\ pc[p] = "done"
        /\ req[p].op = "get_settings"
        /\ loc[p].found
        /\ ~putApplied
        /\ Len(sitesettings) = 1
        /\ resp[p] = Ok(C5_Defaults)

\* The fields a creation/update payload stands for: what it gives, None for
\* an omitted optional text, in_stock = true and features = [] when omitted.
PayloadFields(body) ==
    [ name |-> body.name,
      brand |-> body.brand,
      description |-> IF "description" \in DOMAIN body THEN body.description ELSE None,
      price |-> body.price,
      image_url |-> IF "image_url" \in DOMAIN body THEN body.image_url ELSE None,
      category |-> IF "category" \in DOMAIN body THEN body.category ELSE None,
      in_stock |-> IF "in_stock" \in DOMAIN body THEN body.in_stock ELSE TRUE,
      features |-> IF "features" \in DOMAIN body THEN body.features ELSE <<>> ]

\* C6: an authorized Create with a valid payload P returns P's fields plus an
\* identifier no stored product has; a List afterwards holds every earlier
\* product unchanged and exactly one product with the new identifier, with
\* P's fields.  List on an empty collection returns the empty sequence.
C6_CreateThenList ==
    [][\A p \in Procs :
        /\ ( /\ Starts(p, {"create"})
             /\ Authorized(req'[p].token)
             /\ {"name", "brand", "price"} \subseteq DOMAIN req'[p].body
             /\ req'[p].body.price >= 0 ) =>
              /\ pc'[p] = "done"
              /\ resp'[p].status = 200
              /\ Shape(resp'[p].body) = PayloadFields(req'[p].body)
              /\ \A i \in 1..Len(product) : str(product[i]._id) # resp'[p].body.id
              /\ Len(list_products_result') = Len(list_products_result) + 1
              /\ \A i \in 1..Len(list_products_result) :
                    list_products_result'[i] = list_products_result[i]
              /\ Cardinality({j \in 1..Len(list_products_result') :
                                list_products_result'[j].id = resp'[p].body.id}) = 1
              /\ \E j \in 1..Len(list_products_result') :
                    list_products_result'[j] = resp'[p].body
        /\ (Starts(p, {"list"}) /\ product = <<>>) =>
              (pc'[p] = "done" /\ resp'[p] = Ok(<<>>))]_vars

\* A second product was created from a payload that omits the optional fields.
C6_Witness ==
    \E p \in Procs :
        /\ pc[p] = "done"
        /\ req[p].op = "create"
        /\ resp[p].status = 200
        /\ "in_stock" \notin DOMAIN req[p].body
        /\ Len(product) = 2
        /\ product[2].in_stock = TRUE

IdSeq(coll) == [i \in 1..Len(coll) |-> coll[i]._id]

\* C7: every stored product has price >= 0, and no step changes the
\* identifier of a stored product: the identifiers stay as they are, or a
\* new one is appended, or one product is removed.
C7_PriceAndIdentifierKept ==
    /\ [](\A i \in 1..Len(product) : product[i].price >= 0)
    /\ [][\/ IdSeq(product') = IdSeq(product)
          \/ /\ Len(product') = Len(product) + 1
             /\ SubSeq(IdSeq(product'), 1, Len(product)) = IdSeq(product)
             /\ product'[Len(product')]._id \notin Ids(product)
          \/ /\ Len(product') = Len(product) - 1
             /\ \E k \in 1..Len(product) :
                   IdSeq(product') =
                      [i \in 1..(Len(product) - 1) |->
                          IF i < k THEN product[i]._id ELSE product[i + 1]._id]]_vars

\* An update with a negative price was rejected while an update of a stored
\* product went through.
C7_Witness ==
    \E p, q \in Procs :
        /\ pc[p] = "done" /\ req[p].op = "update" /\ resp[p].status = 422
        /\ Authorized(req[p].token) /\ req[p].body.price < 0
        /\ pc[q] = "done" /\ req[q].op = "update" /\ resp[q].status = 200
        /\ Len(product) = 2

\* C8: a contact request with a valid payload whose message was stored, on a
\* server with no relay host, is answered exactly {stored: true, email_sent:
\* false, error: "SMTP not configured on server"} with no mail connection.
C8_UnconfiguredRelayReply ==
    \A p \in Procs :
        ( /\ pc[p] = "done"
          /\ req[p].op = "contact"
          /\ loc[p].inserted
          /\ (smtpEnv.host = None \/ smtpEnv.host = "") ) =>
            /\ loc[p].connects = 0
            /\ resp[p].status = 200
            /\ resp[p].body = [stored |-> TRUE, email_sent |-> FALSE,
                               error |-> "SMTP not configured on server"]

\* C9: an authorized Update whose update step matched a document ends by
\* returning the Product with the requested identifier, under every
\* interleaving with other Update and Delete calls.
C9_MatchedUpdateReturnsProduct ==
    \A p \in Procs :
        (pc[p] = "done" /\ req[p].op = "update" /\ loc[p].calls = 2) =>
            /\ resp[p].status = 200
            /\ resp[p].body.id = str(ObjectId(req[p].text))

\* C10: with requests handled one at a time, a successful Update of product X
\* with payload P leaves X holding exactly P's fields under the same
\* identifier, returns P plus X, and changes neither the number of products
\* nor any other product.
C10_UpdateReplacesAllFields ==
    /\ [](\A p \in Procs :
            (pc[p] = "done" /\ req[p].op = "update" /\ loc[p].calls = 2) =>
                LET X == ObjectId(req[p].text)
                IN  /\ resp[p].status = 200
                    /\ Cardinality(Matching(product, X)) = 1
                    /\ \A i \in Matching(product, X) :
                          Shape(product[i]) = PayloadFields(req[p].body)
                    /\ Shape(resp[p].body) = PayloadFields(req[p].body)
                    /\ resp[p].body.id = str(X))
    /\ [][\A p \in Procs :
            (Starts(p, {"update"}) /\ pc'[p] = "update_reread") =>
                LET X == ObjectId(req'[p].text)
                IN  /\ Len(product') = Len(product)
                    /\ IdSeq(product') = IdSeq(product)
                    /\ \A i \in 1..Len(product) :
                          product[i]._id # X => product'[i] = product[i]
                    /\ \A i \in 1..Len(product) :
                          product[i]._id = X =>
                             Shape(product'[i]) = PayloadFields(req'[p].body)]_vars

\* A product created with every field was updated with a payload that omits
\* the optional ones, next to another product.
C10_Witness ==
    \E p \in Procs :
        /\ pc[p] = "done"
        /\ req[p].op = "update"
        /\ resp[p].status = 200
        /\ "description" \notin DOMAIN req[p].body
        /\ Len(product) = 2
        /\ req[p].text = Pad("a")
        /\ product[1].description = None
        /\ product[2].description = "quiet"

====
